---- MODULE Spec2Model ----
(***************************************************************************)
(* A model of problems.py (LengthBiasCGP): the benchmark problems, their   *)
(* construction from a configuration dictionary and their get_fitness.     *)
(* The code is Python 2: `/` on two ints is floor division, map() returns  *)
(* a list, bool is a subclass of int (True == 1).                          *)
(*                                                                         *)
(* Floats are modelled as exact rationals <<numerator, denominator>> in    *)
(* lowest terms: the model abstracts from IEEE rounding.                   *)
(***************************************************************************)
EXTENDS Integers, Sequences, FiniteSets, TLC

\* ------------------------------------------------------------- bounds
\* input_length ranges over 0..MaxLen
MaxLen == 3
\* epsilon ranges over 0..MaxEps
MaxEps == 1
\* graph_length ranges over 1..MaxGraph
MaxGraph == 2
\* evaluate([0])[0] of a Depth individual ranges over 0..MaxDepthOut
MaxDepthOut == 3
\* an individual has at most MaxGenes genes
MaxGenes == 2
\* an individual has at most MaxNodes active nodes
MaxNodes == 2
\* number of concurrent callers of get_fitness
NumWorkers == 2
\* the free individuals of SpecFit answer with values in 0..MaxVal
MaxVal == 2
\* the problems of SpecFit have input_length in 1..MaxFitLen
MaxFitLen == 2

\* ------------------------------------------------------------- numbers
RECURSIVE GCD(_, _)
GCD(a, b) == IF b = 0 THEN a ELSE GCD(b, a % b)

Abs(x) == IF x < 0 THEN -x ELSE x

\* a rational in lowest terms with a positive denominator
Rat(n, d) == LET g == GCD(Abs(n), d) IN <<n \div g, d \div g>>

Zero == Rat(0, 1)
One == Rat(1, 1)
RatAdd(a, b) == Rat(a[1] * b[2] + b[1] * a[2], a[2] * b[2])
RatSub(a, b) == Rat(a[1] * b[2] - b[1] * a[2], a[2] * b[2])
\* a / float(k), k a positive integer
RatDivInt(a, k) == Rat(a[1], a[2] * k)
RatLess(a, b) == a[1] * b[2] < b[1] * a[2]
RatLeq(a, b) == a[1] * b[2] <= b[1] * a[2]

\* ------------------------------------------------------------- strings
\* A Python str is a sequence of one-character strings.
Repeat(c, k) == [i \in 1..k |-> c]

\* str(x) for a bit x
StrOfBit(x) == IF x = 0 THEN "0" ELSE "1"

\* int(c) for a one-character str c
IntOfChar(c) == IF c = "0" THEN 0 ELSE 1

\* s.rjust(width, fill): pads on the left, never truncates
rjust(s, width, fill) ==
    IF Len(s) >= width THEN s ELSE Repeat(fill, width - Len(s)) \o s

\* s.ljust(width, fill): pads on the right, never truncates
ljust(s, width, fill) ==
    IF Len(s) >= width THEN s ELSE s \o Repeat(fill, width - Len(s))

\* int(s, 2) for a non-empty s of binary digits, most significant first
RECURSIVE IntBase2(_)
IntBase2(s) ==
    IF Len(s) = 0 THEN 0
    ELSE 2 * IntBase2(SubSeq(s, 1, Len(s) - 1)) + IntOfChar(s[Len(s)])

\* bin(x)[2:] for x >= 0: the shortest binary numeral of x
RECURSIVE bin(_)
bin(x) ==
    IF x < 2 THEN <<StrOfBit(x)>>
    ELSE bin(x \div 2) \o <<StrOfBit(x % 2)>>

\* map(int, s)
MapInt(s) == [i \in 1..Len(s) |-> IntOfChar(s[i])]

\* sum(xs) of a sequence of ints
RECURSIVE Sum(_)
Sum(xs) == IF xs = <<>> THEN 0 ELSE Head(xs) + Sum(Tail(xs))

\* ------------------------------------------------------------- domain generators
\* itertools.product(pool, repeat=n), in the order itertools yields it:
\* result = [x + [y] for x in result for y in pool], n times over
RECURSIVE Product(_, _)
Product(pool, n) ==
    IF n = 0 THEN << <<>> >>
    ELSE LET prev == Product(pool, n - 1)
             k == Len(pool)
         IN [j \in 1..(Len(prev) * k) |->
                Append(prev[((j - 1) \div k) + 1], pool[((j - 1) % k) + 1])]

binary_range(cfg) == Product(<<0, 1>>, cfg["input_length"])

\* the set bit one position early: rjust(i) instead of rjust(i + 1)
single_bit_set_shifted(cfg) ==
    [j \in 1..cfg["input_length"] |->
        MapInt(ljust(rjust(<<"1">>, j - 1, "0"), cfg["input_length"], "0"))]

single_bit_set(cfg) ==
    [j \in 1..cfg["input_length"] |->
        MapInt(ljust(rjust(<<"1">>, j, "0"), cfg["input_length"], "0"))]

\* ------------------------------------------------------------- problem classes
Bounded == {"Binary_Multiply", "Breadth"}
Kinds == {"Neutral", "Binary_Multiply", "Breadth", "Depth", "Flat", "Active"}

\* the data_range attribute a class resolves to
data_range(k, cfg) ==
    IF k = "Breadth" THEN single_bit_set(cfg) ELSE binary_range(cfg)

\* int(a, 2) raises ValueError on an empty string
Binary_Multiply_raises(inputs) ==
    LET middle == Len(inputs) \div 2
    IN  middle = 0 \/ Len(inputs) - middle = 0

\* the product padded on the right instead of the left
Binary_Multiply_problem_function_ljust(inputs) ==
    LET joined == [i \in 1..Len(inputs) |-> StrOfBit(inputs[i])]
        middle == Len(joined) \div 2
        a == SubSeq(joined, 1, middle)
        b == SubSeq(joined, middle + 1, Len(joined))
        multiplied == bin(IntBase2(a) * IntBase2(b))
        extended == ljust(multiplied, Len(inputs), "0")
    IN  MapInt(extended)

Binary_Multiply_problem_function(inputs) ==
    LET joined == [i \in 1..Len(inputs) |-> StrOfBit(inputs[i])]
        middle == Len(joined) \div 2
        a == SubSeq(joined, 1, middle)
        b == SubSeq(joined, middle + 1, Len(joined))
        multiplied == bin(IntBase2(a) * IntBase2(b))
        extended == rjust(multiplied, Len(inputs), "0")
    IN  MapInt(extended)

\* true only when more than one input is true
Breadth_problem_function_strict(inputs) ==
    << IF Sum(inputs) > 1 THEN 1 ELSE 0 >>

\* [sum(inputs) > 0]: a bool, which Python's arithmetic reads as 0 or 1
Breadth_problem_function(inputs) ==
    << IF Sum(inputs) > 0 THEN 1 ELSE 0 >>

problem_function_raises(k, inputs) ==
    k = "Binary_Multiply" /\ Binary_Multiply_raises(inputs)

problem_function(k, inputs) ==
    IF k = "Breadth" THEN Breadth_problem_function(inputs)
    ELSE Binary_Multiply_problem_function(inputs)

\* ------------------------------------------------------------- individuals
\* An individual is consumed through evaluate, genes and active only.
\* A gene is <<>> (None) or <<v>> (the integer v).
None == <<>>
GeneValues == {None, <<-1>>, <<0>>}
GeneSeqs == UNION {[1..n -> GeneValues] : n \in 0..MaxGenes}

Individual(m, v, g, a) == [mode |-> m, val |-> v, genes |-> g, active |-> a]

NoIndividual == Individual("none", 0, <<>>, {})

Individuals(k) ==
    CASE k = "Binary_Multiply" ->
            {Individual(m, 0, <<>>, {}) : m \in {"multiply", "echo"}}
      [] k = "Breadth" ->
            {Individual("const", v, <<>>, {}) : v \in 0..1}
            \cup {Individual("empty", 0, <<>>, {})}
      [] k = "Flat" -> {Individual("empty", 0, g, {}) : g \in GeneSeqs}
      [] k = "Active" ->
            {Individual("empty", 0, <<>>, a) : a \in SUBSET (1..MaxNodes)}
      [] OTHER -> {Individual("const", v, <<>>, {}) : v \in 0..MaxDepthOut}

\* individual.evaluate(inputs)
evaluate(i, inputs) ==
    CASE i.mode = "multiply" -> Binary_Multiply_problem_function(inputs)
      [] i.mode = "echo" -> inputs
      [] i.mode = "const" -> <<i.val>>
      [] OTHER -> <<>>

\* ------------------------------------------------------------- results
Value(r) == [tag |-> "value", val |-> r, err |-> ""]
Fault(e) == [tag |-> "fault", val |-> Zero, err |-> e]
NoResult == [tag |-> "none", val |-> Zero, err |-> ""]

\* ------------------------------------------------------------- get_fitness
Min(a, b) == IF a < b THEN a ELSE b

\* zip that pairs every expected output, an absent answer counting as wrong
zip_padded(xs, ys) ==
    [p \in 1..Len(ys) |->
        <<IF p <= Len(xs) THEN xs[p] ELSE ys[p] + MaxEps + 1, ys[p]>>]

\* zip(xs, ys): pairs up to the shorter of the two
zip(xs, ys) == [p \in 1..Min(Len(xs), Len(ys)) |-> <<xs[p], ys[p]>>]

\* the comparison taken as >= instead of >
Miss_inclusive(pair, eps) == IF Abs(pair[1] - pair[2]) >= eps THEN 1 ELSE 0

\* float(abs(answer - output) > epsilon)
Miss(pair, eps) == IF Abs(pair[1] - pair[2]) > eps THEN 1 ELSE 0

\* sum(float(abs(answer - output) > self.epsilon) for answer, output in ...)
RECURSIVE SumMisses(_, _)
SumMisses(pairs, eps) ==
    IF pairs = <<>> THEN 0
    ELSE Miss(Head(pairs), eps) + SumMisses(Tail(pairs), eps)

\* the term added to score for one training case; len(outputs) > 0
CaseError(answers, outputs, eps) ==
    Rat(SumMisses(zip(answers, outputs), eps), Len(outputs))

\* 1 - (score / float(len(self.training)))
FinalFitness(score, n) ==
    IF n = 0 THEN Fault("ZeroDivisionError")
    ELSE Value(RatSub(One, RatDivInt(score, n)))

\* the loop of Bounded_Problem.get_fitness from case `from` on
RECURSIVE BoundedScore(_, _, _, _)
BoundedScore(training, eps, i, from) ==
    IF from > Len(training) THEN Zero
    ELSE RatAdd(CaseError(evaluate(i, training[from][1]), training[from][2], eps),
                BoundedScore(training, eps, i, from + 1))

\* Bounded_Problem.get_fitness run on its own against the object `obj`
Bounded_get_fitness(obj, i) ==
    FinalFitness(BoundedScore(obj["training"], obj["epsilon"], i, 1),
                 Len(obj["training"]))

Neutral_get_fitness(i) == Value(Zero)

Depth_get_fitness(obj, i) ==
    IF "graph_length" \notin DOMAIN obj["config"] THEN Fault("KeyError")
    ELSE IF obj["config"]["graph_length"] = 0 THEN Fault("ZeroDivisionError")
    ELSE Value(Rat(evaluate(i, <<0>>)[1], obj["config"]["graph_length"]))

\* the loop without the test for None around `correct += 1`; Python 2 orders
\* None below every integer, so None < 0 holds
RECURSIVE FlatCount_none_negative(_)
FlatCount_none_negative(genes) ==
    IF genes = <<>> THEN <<0, 0>>
    ELSE LET rest == FlatCount_none_negative(SubSeq(genes, 1, Len(genes) - 1))
             gene == genes[Len(genes)]
         IN  IF gene # None
             THEN <<rest[1] + (IF gene[1] < 0 THEN 1 ELSE 0), rest[2] + 1>>
             ELSE <<rest[1] + 1, rest[2]>>

\* <<correct, total>> after the loop over individual.genes
RECURSIVE FlatCount(_)
FlatCount(genes) ==
    IF genes = <<>> THEN <<0, 0>>
    ELSE LET rest == FlatCount(SubSeq(genes, 1, Len(genes) - 1))
             gene == genes[Len(genes)]
         IN  IF gene # None
             THEN <<rest[1] + (IF gene[1] < 0 THEN 1 ELSE 0), rest[2] + 1>>
             ELSE rest

Flat_get_fitness(i) ==
    LET c == FlatCount(i.genes)
    IN  IF c[2] = 0 THEN Fault("ZeroDivisionError") ELSE Value(Rat(c[1], c[2]))

Active_get_fitness(obj, i) ==
    IF "graph_length" \notin DOMAIN obj["config"] THEN Fault("KeyError")
    ELSE IF obj["config"]["graph_length"] = 0 THEN Fault("ZeroDivisionError")
    ELSE Value(Rat(Cardinality(i.active), obj["config"]["graph_length"]))

\* ------------------------------------------------------------- configurations
Keys == {"input_length", "epsilon", "graph_length"}

KeyValues(key) ==
    CASE key = "input_length" -> 0..MaxLen
      [] key = "epsilon" -> 0..MaxEps
      [] OTHER -> 1..MaxGraph

\* the keys the code of class k reads; no other key can affect it
ReadKeys(k) ==
    CASE k \in Bounded -> {"input_length", "epsilon"}
      [] k \in {"Depth", "Active"} -> {"graph_length"}
      [] OTHER -> {}

ConfigsOver(S) == {c \in [S -> 0..(MaxLen + MaxEps + MaxGraph)] :
                        \A key \in S : c[key] \in KeyValues(key)}

Configs(k) == UNION {ConfigsOver(S) : S \in SUBSET ReadKeys(k)}

\* ------------------------------------------------------------- state
VARIABLES
    kind,      \* the class being instantiated
    config,    \* the dictionary passed to __init__
    self,      \* the instance: attribute name -> value, as assigned so far
    built,     \* the instance as it was when __init__ returned
    pc,        \* where __init__ is: new, range, table, epsilon, ready, failed
    err,       \* the exception __init__ raised, "" if none
    domain,    \* what is left of the iteration over data_range(config)
    table,     \* the list the comprehension of __init__ has built so far
    calls,     \* how often __init__ has called data_range and problem_function
    wpc,       \* per caller: idle, loop (inside get_fitness), done
    ind,       \* per caller: the individual passed to get_fitness
    idx,       \* per caller: position of the loop over self.training
    score,     \* per caller: the local variable score
    result,    \* per caller: what get_fitness returned or raised
    obs        \* what a free individual has answered so far (SpecFit)

vars == <<kind, config, self, built, pc, err, domain, table, calls,
          wpc, ind, idx, score, result, obs>>

ctor == <<kind, config, self, built, pc, err, domain, table, calls>>
callers == <<wpc, ind, idx, score, result>>

Workers == 1..NumWorkers

NoCalls == [data_range |-> 0, problem_function |-> 0]
NoObs == [cases |-> 0, full |-> TRUE, empty |-> TRUE, misses |-> 0,
          absent |-> 0, positions |-> 0]

IdleCallers ==
    /\ wpc = [w \in Workers |-> "idle"]
    /\ ind = [w \in Workers |-> NoIndividual]
    /\ idx = [w \in Workers |-> 0]
    /\ score = [w \in Workers |-> Zero]
    /\ result = [w \in Workers |-> NoResult]

Init ==
    /\ kind \in Kinds
    /\ config \in Configs(kind)
    /\ self = <<>>
    /\ built = <<>>
    /\ pc = "new"
    /\ err = ""
    /\ domain = <<>>
    /\ table = <<>>
    /\ calls = NoCalls
    /\ IdleCallers
    /\ obs = NoObs

\* ------------------------------------------------------------- construction
\* Neutral.__init__, Flat.__init__: pass
Pass_init ==
    /\ pc = "new"
    /\ kind \in {"Neutral", "Flat"}
    /\ pc' = "ready"
    /\ built' = self
    /\ UNCHANGED <<kind, config, self, err, domain, table, calls, callers, obs>>

\* Depth.__init__, Active.__init__: self.config = config
Config_init ==
    /\ pc = "new"
    /\ kind \in {"Depth", "Active"}
    /\ self' = ("config" :> config)
    /\ built' = self'
    /\ pc' = "ready"
    /\ UNCHANGED <<kind, config, err, domain, table, calls, callers, obs>>

\* Bounded_Problem.__init__, line 68: self.config = config
Bounded_init_config ==
    /\ pc = "new"
    /\ kind \in Bounded
    /\ self' = ("config" :> config)
    /\ pc' = "range"
    /\ UNCHANGED <<kind, config, built, err, domain, table, calls, callers, obs>>

\* line 70: the call self.data_range(config), which reads input_length
Bounded_init_range ==
    /\ pc = "range"
    /\ calls' = [calls EXCEPT !.data_range = @ + 1]
    /\ IF "input_length" \in DOMAIN config
       THEN /\ domain' = data_range(kind, config)
            /\ pc' = "table"
            /\ err' = err
       ELSE /\ pc' = "failed"
            /\ err' = "KeyError"
            /\ domain' = domain
    /\ UNCHANGED <<kind, config, self, built, table, callers, obs>>

\* lines 69-70: one element of the comprehension
Bounded_init_case ==
    /\ pc = "table"
    /\ domain # <<>>
    /\ calls' = [calls EXCEPT !.problem_function = @ + 1]
    /\ IF problem_function_raises(kind, Head(domain))
       THEN /\ pc' = "failed"
            /\ err' = "ValueError"
            /\ UNCHANGED <<domain, table>>
       ELSE /\ table' = Append(table,
                               <<Head(domain), problem_function(kind, Head(domain))>>)
            /\ domain' = Tail(domain)
            /\ UNCHANGED <<pc, err>>
    /\ UNCHANGED <<kind, config, self, built, callers, obs>>

\* line 69: self.training = [...], once the iteration is exhausted
Bounded_init_training ==
    /\ pc = "table"
    /\ domain = <<>>
    /\ self' = self @@ ("training" :> table)
    /\ pc' = "epsilon"
    /\ UNCHANGED <<kind, config, built, err, domain, table, calls, callers, obs>>

\* line 71: self.epsilon = config['epsilon']
Bounded_init_epsilon ==
    /\ pc = "epsilon"
    /\ IF "epsilon" \in DOMAIN config
       THEN /\ self' = self @@ ("epsilon" :> config["epsilon"])
            /\ built' = self'
            /\ pc' = "ready"
            /\ err' = err
       ELSE /\ pc' = "failed"
            /\ err' = "KeyError"
            /\ UNCHANGED <<self, built>>
    /\ UNCHANGED <<kind, config, domain, table, calls, callers, obs>>

\* ------------------------------------------------------------- get_fitness
Returned(w, i, r) ==
    /\ wpc' = [wpc EXCEPT ![w] = "done"]
    /\ ind' = [ind EXCEPT ![w] = i]
    /\ result' = [result EXCEPT ![w] = r]
    /\ UNCHANGED <<idx, score>>

Neutral_call(w, i) ==
    /\ pc = "ready" /\ kind = "Neutral" /\ wpc[w] = "idle"
    /\ Returned(w, i, Neutral_get_fitness(i))
    /\ UNCHANGED <<ctor, obs>>

Depth_call(w, i) ==
    /\ pc = "ready" /\ kind = "Depth" /\ wpc[w] = "idle"
    /\ Returned(w, i, Depth_get_fitness(self, i))
    /\ UNCHANGED <<ctor, obs>>

Flat_call(w, i) ==
    /\ pc = "ready" /\ kind = "Flat" /\ wpc[w] = "idle"
    /\ Returned(w, i, Flat_get_fitness(i))
    /\ UNCHANGED <<ctor, obs>>

Active_call(w, i) ==
    /\ pc = "ready" /\ kind = "Active" /\ wpc[w] = "idle"
    /\ Returned(w, i, Active_get_fitness(self, i))
    /\ UNCHANGED <<ctor, obs>>

\* Bounded_Problem.get_fitness, line 81: score = 0, and the loop starts
Bounded_call(w, i) ==
    /\ pc = "ready" /\ kind \in Bounded /\ wpc[w] = "idle"
    /\ wpc' = [wpc EXCEPT ![w] = "loop"]
    /\ ind' = [ind EXCEPT ![w] = i]
    /\ idx' = [idx EXCEPT ![w] = 1]
    /\ score' = [score EXCEPT ![w] = Zero]
    /\ UNCHANGED <<result, ctor, obs>>

\* lines 86-88 for the case at idx[w], the individual having answered `answers`
ScoreCase(w, answers) ==
    LET outputs == self["training"][idx[w]][2]
    IN  IF Len(outputs) = 0
        THEN /\ wpc' = [wpc EXCEPT ![w] = "done"]
             /\ result' = [result EXCEPT ![w] = Fault("ZeroDivisionError")]
             /\ UNCHANGED <<idx, score>>
        ELSE /\ score' = [score EXCEPT ![w] =
                            RatAdd(@, CaseError(answers, outputs, self["epsilon"]))]
             /\ idx' = [idx EXCEPT ![w] = @ + 1]
             /\ UNCHANGED <<wpc, result>>

\* the loop consuming self.training as it goes, as over a one-shot iterator
Bounded_case_consuming(w) ==
    /\ wpc[w] = "loop"
    /\ self["training"] # <<>>
    /\ score' = [score EXCEPT ![w] =
                    RatAdd(@, CaseError(evaluate(ind[w], self["training"][1][1]),
                                        self["training"][1][2], self["epsilon"]))]
    /\ self' = [self EXCEPT !["training"] = Tail(@)]
    /\ UNCHANGED <<kind, config, built, pc, err, domain, table, calls,
                   wpc, ind, idx, result, obs>>

\* lines 82-88: one iteration of the loop over self.training
Bounded_case(w) ==
    /\ wpc[w] = "loop"
    /\ idx[w] <= Len(self["training"])
    /\ ScoreCase(w, evaluate(ind[w], self["training"][idx[w]][1]))
    /\ UNCHANGED <<ind, ctor, obs>>

\* line 90, the loop being over
Bounded_return(w) ==
    /\ wpc[w] = "loop"
    /\ idx[w] > Len(self["training"])
    /\ wpc' = [wpc EXCEPT ![w] = "done"]
    /\ result' = [result EXCEPT ![w] = FinalFitness(score[w], Len(self["training"]))]
    /\ UNCHANGED <<ind, idx, score, ctor, obs>>

\* the caller has taken the result and may call again
Finish(w) ==
    /\ wpc[w] = "done"
    /\ wpc' = [wpc EXCEPT ![w] = "idle"]
    /\ ind' = [ind EXCEPT ![w] = NoIndividual]
    /\ idx' = [idx EXCEPT ![w] = 0]
    /\ score' = [score EXCEPT ![w] = Zero]
    /\ result' = [result EXCEPT ![w] = NoResult]
    /\ UNCHANGED <<ctor, obs>>

Next ==
    \/ Pass_init
    \/ Config_init
    \/ Bounded_init_config
    \/ Bounded_init_range
    \/ Bounded_init_case
    \/ Bounded_init_training
    \/ Bounded_init_epsilon
    \/ \E w \in Workers, i \in Individuals(kind) : Neutral_call(w, i)
    \/ \E w \in Workers, i \in Individuals(kind) : Depth_call(w, i)
    \/ \E w \in Workers, i \in Individuals(kind) : Flat_call(w, i)
    \/ \E w \in Workers, i \in Individuals(kind) : Active_call(w, i)
    \/ \E w \in Workers, i \in Individuals(kind) : Bounded_call(w, i)
    \/ \E w \in Workers : Bounded_case(w)
    \/ \E w \in Workers : Bounded_return(w)
    \/ \E w \in Workers : Finish(w)

Spec == Init /\ [][Next]_vars

\* ------------------------------------------------------------- free individuals
\* SpecFit: get_fitness of a constructed Bounded_Problem, called by one caller
\* with an individual about which nothing is known: each evaluate answers
\* with any sequence of values.

\* what __init__ leaves in self.training
Table(k, cfg) ==
    LET dr == data_range(k, cfg)
    IN  [j \in 1..Len(dr) |-> <<dr[j], problem_function(k, dr[j])>>]

\* the instance __init__ returns when it raises nothing
Constructed(k, cfg) ==
    [key \in {"config", "training", "epsilon"} |->
        CASE key = "config" -> cfg
          [] key = "training" -> Table(k, cfg)
          [] OTHER -> cfg["epsilon"]]

FreeIndividual == Individual("free", 0, <<>>, {})

FreeAnswers(arity) == UNION {[1..n -> 0..MaxVal] : n \in 0..(arity + 1)}

\* the record of what the individual has answered, one more case added
Observe(o, answers, outputs, eps) ==
    [cases |-> o.cases + 1,
     full |-> o.full /\ Len(answers) = Len(outputs),
     empty |-> o.empty /\ answers = <<>>,
     misses |-> o.misses + Cardinality({p \in 1..Len(outputs) :
                    /\ p <= Len(answers)
                    /\ \/ answers[p] - outputs[p] > eps
                       \/ outputs[p] - answers[p] > eps}),
     absent |-> o.absent + Cardinality({p \in 1..Len(outputs) : p > Len(answers)}),
     positions |-> o.positions + Len(outputs)]

InitFit ==
    /\ kind \in Bounded
    /\ config \in {c \in ConfigsOver({"input_length", "epsilon"}) :
                      /\ c["input_length"] \in 1..MaxFitLen
                      /\ \A v \in [1..c["input_length"] -> {0, 1}] :
                            ~problem_function_raises(kind, v)}
    /\ self = Constructed(kind, config)
    /\ built = self
    /\ pc = "ready"
    /\ err = ""
    /\ domain = <<>>
    /\ table = self["training"]
    /\ calls = [data_range |-> 1, problem_function |-> Len(table)]
    /\ IdleCallers
    /\ obs = NoObs

Free_call ==
    /\ pc = "ready" /\ wpc[1] = "idle"
    /\ wpc' = [wpc EXCEPT ![1] = "loop"]
    /\ ind' = [ind EXCEPT ![1] = FreeIndividual]
    /\ idx' = [idx EXCEPT ![1] = 1]
    /\ score' = [score EXCEPT ![1] = Zero]
    /\ obs' = NoObs
    /\ UNCHANGED <<result, ctor>>

Free_case ==
    /\ wpc[1] = "loop"
    /\ idx[1] <= Len(self["training"])
    /\ \E answers \in FreeAnswers(Len(self["training"][idx[1]][2])) :
          /\ ScoreCase(1, answers)
          /\ obs' = Observe(obs, answers, self["training"][idx[1]][2],
                            self["epsilon"])
    /\ UNCHANGED <<ind, ctor>>

Free_return ==
    /\ Bounded_return(1)

Free_finish ==
    /\ Finish(1)

NextFit ==
    \/ Free_call
    \/ Free_case
    \/ Free_return
    \/ Free_finish

SpecFit == InitFit /\ [][NextFit]_vars

\* SpecFit starts where __init__ ends
ReadyIsConstructed ==
    (pc = "ready" /\ kind \in Bounded) => self = Constructed(kind, config)

\* ------------------------------------------------------------- properties
RECURSIVE Pow2(_)
Pow2(n) == IF n = 0 THEN 1 ELSE 2 * Pow2(n - 1)

\* the number whose binary digits, most significant first, are s[lo..hi]
RECURSIVE BitsValue(_, _, _)
BitsValue(s, lo, hi) ==
    IF lo > hi THEN 0 ELSE s[lo] * Pow2(hi - lo) + BitsValue(s, lo + 1, hi)

Training == self["training"]
Cases == Len(Training)
Arity == Len(Training[1][2])
Fitness == result[1].val

\* C1: for an individual that answers every case with as many values as are
\* expected, get_fitness returns 1 - (sum over the cases of misses / arity) /
\* (number of cases); the value is in [0, 1], it is 1 exactly when no position
\* is a miss, and it is 0 when every position is a miss.
C1_FitnessFormula ==
    (wpc[1] = "done" /\ obs.full /\ Cases > 0) =>
        /\ result[1].tag = "value"
        /\ obs.positions = Arity * Cases
        /\ Fitness[1] * Arity * Cases = Fitness[2] * (Arity * Cases - obs.misses)
        /\ RatLeq(Zero, Fitness) /\ RatLeq(Fitness, One)
        /\ (Fitness = One <=> obs.misses = 0)
        /\ (obs.misses = obs.positions => Fitness = Zero)

C1_Witness ==
    /\ wpc[1] = "done" /\ obs.full /\ Cases > 1 /\ Arity > 1
    /\ obs.misses > 0 /\ obs.misses < obs.positions
    /\ RatLess(Zero, Fitness) /\ RatLess(Fitness, One)

\* C10: answers are paired with the expected outputs up to the shorter of the
\* two and the case's error is still divided by the full arity: positions the
\* individual did not answer are no misses, and an individual that answers
\* every case with nothing gets fitness 1.
C10_AbsentAnswersAreNoMisses ==
    (wpc[1] = "done" /\ Cases > 0) =>
        /\ result[1].tag = "value"
        /\ Fitness[1] * Arity * Cases = Fitness[2] * (Arity * Cases - obs.misses)
        /\ (obs.empty => Fitness = One)

C10_Witness ==
    /\ wpc[1] = "done" /\ Cases > 1
    /\ obs.empty /\ obs.absent = obs.positions /\ obs.positions > 0
    /\ Fitness = One

\* C2: Flat.get_fitness on an individual without a gene that is not None
\* returns 0 and raises nothing.
C2_FlatWithoutGenesIsZero ==
    \A w \in Workers :
        (kind = "Flat" /\ wpc[w] = "done"
            /\ \A p \in DOMAIN ind[w].genes : ind[w].genes[p] = None)
        => result[w] = Value(Zero)

\* the keys the variants are said to require
RequiredKeys(k) ==
    CASE k \in Bounded -> {"epsilon", "input_length"}
      [] k \in {"Depth", "Active"} -> {"graph_length"}
      [] OTHER -> {}

\* C3: a configuration without a key the variant requires makes construction
\* fail, and no get_fitness call is the first to notice the missing key.
C3_MissingKeyFailsConstruction ==
    /\ (~(RequiredKeys(kind) \subseteq DOMAIN config) => pc # "ready")
    /\ \A w \in Workers :
          ~(result[w].tag = "fault" /\ result[w].err = "KeyError")

\* C4: a Bounded_Problem whose configuration has no epsilon fails before any
\* training-table work: no data_range call, no problem_function call, no case.
\* (Stated for the configurations that lack nothing but epsilon, and for the
\* KeyError that reading epsilon raises.)
C4_EpsilonCheckedFirst ==
    (kind \in Bounded /\ "epsilon" \notin DOMAIN config
        /\ "input_length" \in DOMAIN config
        /\ pc = "failed" /\ err = "KeyError") =>
        /\ calls["data_range"] = 0
        /\ calls["problem_function"] = 0
        /\ table = <<>>

\* C5: for input_length n >= 2 every case of Binary_Multiply has n output
\* bits, the binary numeral (most significant first, zero padded on the left)
\* of a * b, a being the first n div 2 input bits and b the others; and the
\* table has a case for every vector of n bits. (Stated of __init__ at work:
\* once it has returned, C6 has the table unchanged.)
C5_MultiplyTable ==
    (kind = "Binary_Multiply" /\ pc \in {"table", "epsilon"}
        /\ config["input_length"] >= 2) =>
        LET n == config["input_length"] IN
        /\ \A k \in 1..Len(table) :
              LET inputs == table[k][1]
                  outputs == table[k][2]
              IN  /\ Len(inputs) = n
                  /\ Len(outputs) = n
                  /\ \A p \in 1..n : outputs[p] \in {0, 1}
                  /\ BitsValue(outputs, 1, n) =
                        BitsValue(inputs, 1, n \div 2)
                        * BitsValue(inputs, (n \div 2) + 1, n)
        /\ (pc = "epsilon" =>
              /\ Training = table
              /\ \A v \in [1..n -> {0, 1}] : \E k \in 1..Cases : Training[k][1] = v)

C5_Witness ==
    /\ kind = "Binary_Multiply" /\ pc = "epsilon"
    /\ config["input_length"] = 3
    /\ \E k \in 1..Cases : Training[k] = << <<1, 1, 1>>, <<0, 1, 1>> >>

\* what data_range has yielded: the inputs already tabled, then those to come
Yielded == [k \in 1..Len(table) |-> table[k][1]] \o domain

\* C7: binary_range yields 2^n pairwise distinct vectors of n bits;
\* single_bit_set yields n vectors of length n, the i-th with a 1 at position
\* i and 0 elsewhere.
C7_DomainGenerators ==
    (kind \in Bounded /\ pc \in {"table", "epsilon"}) =>
        LET n == config["input_length"] IN
        IF kind = "Binary_Multiply"
        THEN /\ Len(Yielded) = Pow2(n)
             /\ \A j \in 1..Len(Yielded) : Yielded[j] \in [1..n -> {0, 1}]
             /\ \A j, k \in 1..Len(Yielded) : j # k => Yielded[j] # Yielded[k]
        ELSE /\ Len(Yielded) = n
             /\ \A j \in 1..n :
                   /\ Len(Yielded[j]) = n
                   /\ \A p \in 1..n : Yielded[j][p] = (IF p = j THEN 1 ELSE 0)

C7_Witness ==
    /\ kind = "Binary_Multiply" /\ pc = "table" /\ table = <<>>
    /\ config["input_length"] = 3
    /\ Len(domain) = 8

\* C9: the training set of Breadth for input_length n >= 1 has n cases, the
\* k-th with the one-hot vector of position k as input and the single value 1
\* as expected output; an individual that always answers [1] has fitness 1
\* when epsilon is 0.
C9_BreadthExpectsOne ==
    (kind = "Breadth" /\ pc = "ready" /\ config["input_length"] >= 1) =>
        LET n == config["input_length"] IN
        /\ Cases = n
        /\ \A k \in 1..n :
              /\ Training[k][1] = [p \in 1..n |-> IF p = k THEN 1 ELSE 0]
              /\ Training[k][2] = <<1>>
        /\ \A w \in Workers :
              (wpc[w] = "done" /\ ind[w] = Individual("const", 1, <<>>, {})
                  /\ self["epsilon"] = 0)
              => result[w] = Value(One)

C9_Witness ==
    /\ kind = "Breadth" /\ pc = "ready" /\ config["input_length"] >= 2
    /\ self["epsilon"] = 0
    /\ \E w \in Workers :
          /\ wpc[w] = "done" /\ ind[w] = Individual("const", 1, <<>>, {})
          /\ result[w] = Value(One)

\* get_fitness of the instance obj, run on its own
Alone(k, obj, i) ==
    CASE k \in Bounded -> Bounded_get_fitness(obj, i)
      [] k = "Depth" -> Depth_get_fitness(obj, i)
      [] k = "Active" -> Active_get_fitness(obj, i)
      [] k = "Flat" -> Flat_get_fitness(i)
      [] OTHER -> Neutral_get_fitness(i)

\* C6: once constructed, the instance keeps the configuration, training set
\* and epsilon it was constructed with, whatever the interleaving of the
\* get_fitness calls; every call returns what it returns when run alone, and
\* two calls with the same individual return the same.
C6_ReadOnlyInstance ==
    pc = "ready" =>
        /\ self = built
        /\ \A w \in Workers :
              wpc[w] = "done" => result[w] = Alone(kind, built, ind[w])
        /\ \A v, w \in Workers :
              (wpc[v] = "done" /\ wpc[w] = "done" /\ ind[v] = ind[w])
              => result[v] = result[w]

C6_Witness ==
    /\ kind = "Binary_Multiply" /\ pc = "ready"
    /\ \E v, w \in Workers :
          /\ wpc[v] = "done" /\ wpc[w] = "loop" /\ idx[w] > 1
          /\ ind[v] # ind[w]
          /\ result[v].tag = "value"
          /\ RatLess(Zero, result[v].val) /\ RatLess(result[v].val, One)

\* C8 as amended: Depth.get_fitness returns more than 1 exactly when
\* evaluate([0])[0] exceeds graph_length; Flat.get_fitness never returns
\* more than 1.
C8_OnlyDepthExceedsOne ==
    \A w \in Workers :
        (wpc[w] = "done" /\ result[w].tag = "value") =>
            /\ kind = "Flat" =>
                  /\ RatLeq(Zero, result[w].val)
                  /\ RatLeq(result[w].val, One)
            /\ kind = "Depth" =>
                  (RatLess(One, result[w].val)
                      <=> ind[w].val > config["graph_length"])

C8_Witness ==
    /\ kind = "Depth"
    /\ \E w \in Workers :
          /\ wpc[w] = "done" /\ result[w].tag = "value"
          /\ RatLess(One, result[w].val)

\* C8 as stated: for Depth and for Flat alike some individual gets a fitness
\* greater than 1.
C8_DepthAndFlatExceedOne ==
    (pc = "ready" /\ kind \in {"Depth", "Flat"}
        /\ RequiredKeys(kind) \subseteq DOMAIN config) =>
        \E i \in Individuals(kind) :
            /\ Alone(kind, built, i).tag = "value"
            /\ RatLess(One, Alone(kind, built, i).val)

====
